---- MODULE Spec2Model ----
(***************************************************************************)
(* A model of the namespaced TTL cache of src/lib.rs: one process-wide     *)
(* Mutex<HashMap<String, CacheEntry>> (CACHE), handles that only carry a   *)
(* prefix (Cache), and the two operations Cache::get and Cache::insert.    *)
(* Texts (prefixes, serialized keys and values) are sequences of           *)
(* one-character strings, so that the JSON encoding is modelled by what it *)
(* does to the characters.                                                 *)
(***************************************************************************)
EXTENDS Integers, Sequences, FiniteSets, TLC

VARIABLES
    prefix,     \* handle -> namespace, the String inside each Cache value
    store,      \* the HashMap inside CACHE: encoded key -> CacheEntry
    poisoned,   \* the poison flag of the Mutex
    holder,     \* the threads that own a MutexGuard of CACHE
    now,        \* the reading of the UTC clock, OffsetDateTime::now_utc()
    pc,         \* thread -> position inside its current call
    op,         \* thread -> the operation it is calling
    call,       \* thread -> arguments and outcome of the call, once its body ran
    snap,       \* thread -> the HashMap as it was when the thread got the lock
    written,    \* history: encoded key -> the insert that wrote the entry
    hist,       \* history: facts about the past of the run
    todo        \* thread -> the calls its test function has yet to make

vars == <<prefix, store, poisoned, holder, now, pc, op, call, snap, written, hist, todo>>

----------------------------------------------------------------------------
(* Bounds of the model.                                                    *)

\* Last reading of the clock.
MaxClock == 2

\* Largest timestamp OffsetDateTime can represent, scaled to the clock of
\* the model; checked_add returns None beyond it.
MaxTimestamp == MaxClock + 3

\* A lifetime so long that now + ttl leaves the representable range.
HugeTtl == MaxTimestamp + 1

Threads == {"t1", "t2"}

Handles == {"h1", "h2"}

Quote == "\""

Backslash == "\\"

Colon == ":"

\* Prefixes: the empty one and one that holds the delimiter of get_key.
Namespaces == {<<>>, <<Colon>>}

\* Texts of keys: the delimiter again, so that prefix and key can run into
\* each other.
KeyTexts == {<<>>, <<Colon>>}

\* Texts of values: one with the character JSON has to escape.
ValueTexts == {<<>>, <<Quote>>}

\* A plain string (&str, String) or a struct with the one field `name`
\* (test_cache::payload::Value, test_cache::key::Key).
PlainOf(s) == [type |-> "String", s |-> s]

StructOf(s) == [type |-> "Struct", s |-> s]

Keys == {PlainOf(s) : s \in KeyTexts} \cup {StructOf(s) : s \in KeyTexts}

Values == {PlainOf(s) : s \in ValueTexts} \cup {StructOf(s) : s \in ValueTexts}

Types == {"String", "Struct"}

\* A key or value whose Serialize reports an error to serde_json, as a map
\* does whose keys are no strings.
Unserializable == [type |-> "Map", s |-> <<>>]

\* Lifetimes: already over, over at once, one and two seconds, too long.
Ttls == {-1, 0, 1, 2, HugeTtl}

NoCall == [op |-> "none"]

----------------------------------------------------------------------------
(* serde_json, as far as the cache uses it.                                *)

\* A writer of JSON strings that forgets to escape.
EscapeNothing(s) == s

RECURSIVE Escape(_)
Escape(s) ==
    IF s = <<>> THEN <<>>
    ELSE (IF Head(s) \in {Quote, Backslash}
          THEN <<Backslash, Head(s)>>
          ELSE <<Head(s)>>) \o Escape(Tail(s))

\* A writer of JSON strings that leaves out the quotes.
StringToJsonBare(s) == Escape(s)

StringToJson(s) == <<Quote>> \o Escape(s) \o <<Quote>>

FieldName == <<"n", "a", "m", "e">>

StructOpen == <<"{">> \o StringToJson(FieldName) \o <<Colon>>

\* A serializer that skips the field of a struct.
to_string_skipping(x) ==
    IF x.type = "String"
    THEN StringToJson(x.s)
    ELSE StructOpen \o StringToJson(<<>>) \o <<"}">>

\* serde_json::to_string(x) is Ok.
Serializes(x) == x.type \in {"String", "Struct"}

\* serde_json::to_string, the text inside Ok for an x that Serializes.
to_string(x) ==
    IF x.type = "String"
    THEN StringToJson(x.s)
    ELSE StructOpen \o StringToJson(x.s) \o <<"}">>

Failed == [ok |-> FALSE]

RECURSIVE Unescape(_)
Unescape(b) ==
    IF b = <<>> THEN [ok |-> TRUE, s |-> <<>>]
    ELSE IF Head(b) = Quote THEN Failed
    ELSE IF Head(b) = Backslash
         THEN IF Len(b) >= 2 /\ b[2] \in {Quote, Backslash}
              THEN LET r == Unescape(SubSeq(b, 3, Len(b)))
                   IN  IF r.ok THEN [ok |-> TRUE, s |-> <<b[2]>> \o r.s] ELSE Failed
              ELSE Failed
    ELSE LET r == Unescape(Tail(b))
         IN  IF r.ok THEN [ok |-> TRUE, s |-> <<Head(b)>> \o r.s] ELSE Failed

JsonToString(text) ==
    IF Len(text) >= 2 /\ text[1] = Quote /\ text[Len(text)] = Quote
    THEN Unescape(SubSeq(text, 2, Len(text) - 1))
    ELSE Failed

\* A deserializer that answers with the empty value of the type when the
\* text is not of that type.
from_str_or_default(type, text) ==
    IF type = "String"
    THEN LET r == JsonToString(text)
         IN  IF r.ok THEN [ok |-> TRUE, v |-> PlainOf(r.s)]
             ELSE [ok |-> TRUE, v |-> PlainOf(<<>>)]
    ELSE IF /\ Len(text) > Len(StructOpen)
            /\ SubSeq(text, 1, Len(StructOpen)) = StructOpen
            /\ text[Len(text)] = "}"
         THEN LET r == JsonToString(SubSeq(text, Len(StructOpen) + 1, Len(text) - 1))
              IN  IF r.ok THEN [ok |-> TRUE, v |-> StructOf(r.s)]
                  ELSE [ok |-> TRUE, v |-> StructOf(<<>>)]
         ELSE [ok |-> TRUE, v |-> StructOf(<<>>)]

\* serde_json::from_str::<V>
from_str(type, text) ==
    IF type = "String"
    THEN LET r == JsonToString(text)
         IN  IF r.ok THEN [ok |-> TRUE, v |-> PlainOf(r.s)] ELSE Failed
    ELSE IF /\ Len(text) > Len(StructOpen)
            /\ SubSeq(text, 1, Len(StructOpen)) = StructOpen
            /\ text[Len(text)] = "}"
         THEN LET r == JsonToString(SubSeq(text, Len(StructOpen) + 1, Len(text) - 1))
              IN  IF r.ok THEN [ok |-> TRUE, v |-> StructOf(r.s)] ELSE Failed
         ELSE Failed

----------------------------------------------------------------------------
(* The cache.                                                              *)

\* Cache::get_key
get_key(ns, key) == ns \o <<Colon>> \o to_string(key)

\* Adding the lifetime and rounding the instant up to the next second.
checked_add_late(t, ttl) ==
    IF t + ttl > MaxTimestamp THEN Failed ELSE [ok |-> TRUE, v |-> t + ttl + 1]

\* OffsetDateTime::checked_add(ttl.seconds()) followed by unix_timestamp()
checked_add(t, ttl) ==
    IF t + ttl > MaxTimestamp THEN Failed ELSE [ok |-> TRUE, v |-> t + ttl]

\* The match of Cache::get with the entry still alive at its last second.
LookupInclusive(cache, ck, t, type) ==
    IF ck \in DOMAIN cache
    THEN IF cache[ck].expiring >= t
         THEN LET r == from_str(type, cache[ck].value)
              IN  IF r.ok THEN [kind |-> "Some", v |-> r.v] ELSE [kind |-> "panic"]
         ELSE [kind |-> "None"]
    ELSE [kind |-> "None"]

\* The match of Cache::get with the value decoded before the expiry is
\* looked at.
LookupEager(cache, ck, t, type) ==
    IF ck \in DOMAIN cache
    THEN LET r == from_str(type, cache[ck].value)
         IN  IF ~r.ok THEN [kind |-> "panic"]
             ELSE IF cache[ck].expiring > t THEN [kind |-> "Some", v |-> r.v]
             ELSE [kind |-> "None"]
    ELSE [kind |-> "None"]

\* The match of Cache::get on the map `cache` at clock reading `t`.
Lookup(cache, ck, t, type) ==
    IF ck \in DOMAIN cache
    THEN IF cache[ck].expiring > t
         THEN LET r == from_str(type, cache[ck].value)
              IN  IF r.ok THEN [kind |-> "Some", v |-> r.v] ELSE [kind |-> "panic"]
         ELSE [kind |-> "None"]
    ELSE [kind |-> "None"]

\* A map whose insert keeps the later of the old and the new expiry.
MapInsertExtending(cache, ck, entry) ==
    [k \in DOMAIN cache \cup {ck} |->
        IF k = ck
        THEN IF ck \in DOMAIN cache /\ cache[ck].expiring > entry.expiring
             THEN [entry EXCEPT !.expiring = cache[ck].expiring]
             ELSE entry
        ELSE cache[k]]

\* A map whose insert puts the new value into an entry that is there and
\* leaves the expiry of that entry.
MapInsertKeepingExpiry(cache, ck, entry) ==
    [k \in DOMAIN cache \cup {ck} |->
        IF k = ck
        THEN IF ck \in DOMAIN cache
             THEN [entry EXCEPT !.expiring = cache[ck].expiring]
             ELSE entry
        ELSE cache[k]]

\* A map whose insert gives the new expiry to every entry it holds.
MapInsertSharingExpiry(cache, ck, entry) ==
    [k \in DOMAIN cache \cup {ck} |->
        IF k = ck THEN entry ELSE [cache[k] EXCEPT !.expiring = entry.expiring]]

\* A map whose insert throws out the entries that are stale by now.
MapInsertPurging(cache, ck, entry) ==
    [k \in {j \in DOMAIN cache : cache[j].expiring > now} \cup {ck} |->
        IF k = ck THEN entry ELSE cache[k]]

\* HashMap::insert
MapInsert(cache, ck, entry) ==
    [k \in DOMAIN cache \cup {ck} |-> IF k = ck THEN entry ELSE cache[k]]

\* The CacheEntry that Cache::insert builds.
CacheEntry(value, expiring) == [value |-> to_string(value), expiring |-> expiring]

\* History: the record of the latest insert to ck.
Noted(records, ck, record) ==
    [k \in DOMAIN records \cup {ck} |-> IF k = ck THEN record ELSE records[k]]

\* History: the key whose live entry the latest insert to it replaced by an
\* entry that is expired from the start, <<>> when there is none.
CutBy(cache, ck, expiring, t, cut) ==
    IF ck \in DOMAIN cache /\ cache[ck].expiring > t /\ expiring <= t
    THEN ck
    ELSE IF cut = ck THEN <<>> ELSE cut

\* History: for every thread that is inside a call of insert while thread t
\* writes the key ck, the key that was written; <<>> when there was none.
SeenBy(t, ck, seen) ==
    [u \in DOMAIN seen |->
        IF u # t /\ pc[u] \in {"lock", "body"} /\ op[u] = "insert" THEN ck ELSE seen[u]]

\* A mutex that grants a guard to every caller.
LockAlwaysFree == TRUE

\* Mutex::lock grants the guard only while no other guard exists.
LockFree == holder = {}

\* The state after the handles were made by Cache::new, the handles' prefixes
\* being one of the assignments in P; CACHE is empty and unlocked.
InitWith(P) ==
    /\ prefix \in P
    /\ store = <<>>
    /\ poisoned = FALSE
    /\ holder = {}
    /\ now = 0
    /\ pc = [t \in Threads |-> "idle"]
    /\ op = [t \in Threads |-> "none"]
    /\ call = [t \in Threads |-> NoCall]
    /\ snap = [t \in Threads |-> <<>>]
    /\ written = <<>>
    /\ hist = [cut |-> <<>>, seen |-> [t \in Threads |-> <<>>], lastAcq |-> "none"]
    /\ todo = [t \in Threads |-> <<>>]

\* A thread enters Cache::get or Cache::insert and reaches CACHE.lock().
Call(t, o) ==
    /\ pc[t] = "idle"
    /\ pc' = [pc EXCEPT ![t] = "lock"]
    /\ op' = [op EXCEPT ![t] = o]
    /\ UNCHANGED <<prefix, store, poisoned, holder, now, call, snap, written, hist>>

\* CACHE.lock().unwrap(): the guard is granted; on a poisoned mutex unwrap
\* panics and the guard inside the error is dropped by Unlock.
Lock(t) ==
    /\ pc[t] = "lock"
    /\ LockFree
    /\ holder' = holder \cup {t}
    /\ snap' = [snap EXCEPT ![t] = store]
    /\ IF poisoned
       THEN /\ pc' = [pc EXCEPT ![t] = "panic"]
            /\ call' = [call EXCEPT ![t] = [op |-> op[t], result |-> [kind |-> "poison"]]]
       ELSE /\ pc' = [pc EXCEPT ![t] = "body"]
            /\ call' = call
    /\ hist' = [hist EXCEPT !.lastAcq = t]
    /\ UNCHANGED <<prefix, store, poisoned, now, op, written>>

\* A body of Cache::get that removes the stale entry it finds.
GetEvicting(t, h, key, type) ==
    /\ pc[t] = "body"
    /\ op[t] = "get"
    /\ LET ck == get_key(prefix[h], key)
           r  == Lookup(store, ck, now, type)
       IN  /\ call' = [call EXCEPT ![t] =
                          [op |-> "get", h |-> h, key |-> key, ck |-> ck,
                           type |-> type, at |-> now, result |-> r]]
           /\ pc' = [pc EXCEPT ![t] = IF r.kind = "panic" THEN "panic" ELSE "ret"]
           /\ store' = IF ck \in DOMAIN store /\ store[ck].expiring <= now
                       THEN [k \in DOMAIN store \ {ck} |-> store[k]]
                       ELSE store
    /\ UNCHANGED <<prefix, poisoned, holder, now, op, snap, written, hist>>

\* A body of Cache::get that takes the lock of CACHE once more while it
\* holds the guard: the second lock() waits for the first guard to go.
GetRelocking(t, h, key, type) ==
    /\ pc[t] = "body"
    /\ op[t] = "get"
    /\ LockFree
    /\ LET ck == get_key(prefix[h], key)
           r  == Lookup(store, ck, now, type)
       IN  /\ call' = [call EXCEPT ![t] =
                          [op |-> "get", h |-> h, key |-> key, ck |-> ck,
                           type |-> type, at |-> now, result |-> r]]
           /\ pc' = [pc EXCEPT ![t] = IF r.kind = "panic" THEN "panic" ELSE "ret"]
    /\ UNCHANGED <<prefix, store, poisoned, holder, now, op, snap, written, hist>>

\* A body of Cache::get that looks only at the entries that were inserted
\* through the handle it is called on.
GetOwnEntries(t, h, key, type) ==
    /\ pc[t] = "body"
    /\ op[t] = "get"
    /\ LET ck  == get_key(prefix[h], key)
           own == [k \in {j \in DOMAIN store : written[j].h = h} |-> store[k]]
           r   == Lookup(own, ck, now, type)
       IN  /\ call' = [call EXCEPT ![t] =
                          [op |-> "get", h |-> h, key |-> key, ck |-> ck,
                           type |-> type, at |-> now, result |-> r]]
           /\ pc' = [pc EXCEPT ![t] = IF r.kind = "panic" THEN "panic" ELSE "ret"]
    /\ UNCHANGED <<prefix, store, poisoned, holder, now, op, snap, written, hist>>

\* The body of Cache::get: get_key panics when the key does not serialize,
\* from_str(..).unwrap() when the live entry is no text of the type.
Get(t, h, key, type) ==
    /\ pc[t] = "body"
    /\ op[t] = "get"
    /\ IF ~Serializes(key)
       THEN /\ call' = [call EXCEPT ![t] =
                           [op |-> "get", h |-> h, key |-> key, type |-> type,
                            at |-> now, result |-> [kind |-> "encode"]]]
            /\ pc' = [pc EXCEPT ![t] = "panic"]
       ELSE LET ck == get_key(prefix[h], key)
                r  == Lookup(store, ck, now, type)
            IN  /\ call' = [call EXCEPT ![t] =
                               [op |-> "get", h |-> h, key |-> key, ck |-> ck,
                                type |-> type, at |-> now, result |-> r]]
                /\ pc' = [pc EXCEPT ![t] = IF r.kind = "panic" THEN "panic" ELSE "ret"]
    /\ UNCHANGED <<prefix, store, poisoned, holder, now, op, snap, written, hist>>

\* A body of Cache::insert that puts the entry into the map before it adds
\* the lifetime, and fills in the expiry afterwards.
InsertEntryFirst(t, h, key, value, ttl) ==
    /\ pc[t] = "body"
    /\ op[t] = "insert"
    /\ LET e == checked_add(now, ttl)
       IN  IF Serializes(key) /\ Serializes(value)
           THEN LET ck == get_key(prefix[h], key)
                IN  /\ store' = MapInsert(store, ck,
                                    CacheEntry(value, IF e.ok THEN e.v ELSE now))
                    /\ written' = Noted(written, ck,
                                     [key |-> key, value |-> value, at |-> now,
                                      ttl |-> ttl, h |-> h, t |-> t])
                    /\ call' = [call EXCEPT ![t] =
                                   [op |-> "insert", h |-> h, key |-> key, ck |-> ck,
                                    value |-> value, ttl |-> ttl, at |-> now,
                                    result |-> [kind |-> IF e.ok THEN "unit"
                                                         ELSE "panic"]]]
                    /\ pc' = [pc EXCEPT ![t] = IF e.ok THEN "ret" ELSE "panic"]
           ELSE /\ call' = [call EXCEPT ![t] =
                               [op |-> "insert", h |-> h, key |-> key, ck |-> <<>>,
                                value |-> value, ttl |-> ttl, at |-> now,
                                result |-> [kind |-> "encode"]]]
                /\ pc' = [pc EXCEPT ![t] = "panic"]
                /\ UNCHANGED <<store, written>>
    /\ UNCHANGED <<prefix, poisoned, holder, now, op, snap, hist>>

\* The body of Cache::insert, in the order of its statements: get_key
\* panics when the key does not serialize, checked_add(..).unwrap() when
\* now + ttl is out of range, to_string(value).unwrap() when the value does
\* not serialize; only then HashMap::insert is called.
Insert(t, h, key, value, ttl) ==
    /\ pc[t] = "body"
    /\ op[t] = "insert"
    /\ LET e == checked_add(now, ttl)
       IN  IF Serializes(key) /\ e.ok /\ Serializes(value)
           THEN LET ck == get_key(prefix[h], key)
                IN  /\ store' = MapInsert(store, ck, CacheEntry(value, e.v))
                    /\ written' = Noted(written, ck,
                                     [key |-> key, value |-> value, at |-> now,
                                      ttl |-> ttl, h |-> h, t |-> t])
                    /\ hist' = [hist EXCEPT
                                   !.cut = CutBy(store, ck, e.v, now, hist.cut),
                                   !.seen = SeenBy(t, ck, hist.seen)]
                    /\ call' = [call EXCEPT ![t] =
                                   [op |-> "insert", h |-> h, key |-> key, ck |-> ck,
                                    value |-> value, ttl |-> ttl, at |-> now,
                                    result |-> [kind |-> "unit"]]]
                    /\ pc' = [pc EXCEPT ![t] = "ret"]
           ELSE /\ call' = [call EXCEPT ![t] =
                               [op |-> "insert", h |-> h, key |-> key,
                                ck |-> IF Serializes(key) THEN get_key(prefix[h], key)
                                       ELSE <<>>,
                                value |-> value, ttl |-> ttl, at |-> now,
                                result |-> [kind |-> IF Serializes(key) /\ ~e.ok
                                                     THEN "panic"
                                                     ELSE "encode"]]]
                /\ pc' = [pc EXCEPT ![t] = "panic"]
                /\ UNCHANGED <<store, written, hist>>
    /\ UNCHANGED <<prefix, poisoned, holder, now, op, snap>>

\* The MutexGuard is dropped: the lock is released, and the mutex is
\* poisoned when the drop happens while the thread is panicking.
Unlock(t) ==
    /\ pc[t] \in {"ret", "panic"}
    /\ holder' = holder \ {t}
    /\ poisoned' = (poisoned \/ pc[t] = "panic")
    /\ pc' = [pc EXCEPT ![t] = "idle"]
    /\ op' = [op EXCEPT ![t] = "none"]
    /\ call' = [call EXCEPT ![t] = NoCall]
    /\ snap' = [snap EXCEPT ![t] = <<>>]
    /\ hist' = [hist EXCEPT !.seen[t] = <<>>]
    /\ UNCHANGED <<prefix, store, now, written>>

\* A clock that starts again at 0 after the reading `last`.
TickWrapping(last) ==
    /\ now' = (now + 1) % (last + 1)
    /\ UNCHANGED <<prefix, store, poisoned, holder, pc, op, call, snap, written, hist, todo>>

\* A second passes, up to the reading `last`.
Tick(last) ==
    /\ now < last
    /\ now' = now + 1
    /\ UNCHANGED <<prefix, store, poisoned, holder, pc, op, call, snap, written, hist, todo>>

\* The steps of the callers in T, through the handles in H, with keys from K,
\* values from V and lifetimes from L; the callers make any calls in any
\* order, no test function runs.
Step(T, H, K, V, L) ==
    /\ \/ \E t \in T, o \in {"get", "insert"} : Call(t, o)
       \/ \E t \in T : Lock(t)
       \/ \E t \in T, h \in H, key \in K, type \in Types : Get(t, h, key, type)
       \/ \E t \in T, h \in H, key \in K, value \in V, ttl \in L :
             Insert(t, h, key, value, ttl)
       \/ \E t \in T : Unlock(t)
    /\ UNCHANGED todo

\* Two handles of different namespaces.
TwoNamespaces == [h \in Handles |-> IF h = "h1" THEN <<>> ELSE <<Colon>>]

\* One caller at a time on one handle, a plain and a structured key, all
\* values and all lifetimes.
Init == InitWith({TwoNamespaces})

Next ==
    \/ Step({"t1"}, {"h2"}, {PlainOf(<<Colon>>), StructOf(<<Colon>>)}, Values, Ttls)
    \/ Tick(MaxClock)

Spec == Init /\ [][Next]_vars

\* One caller on one handle and one key, with a clock that keeps advancing
\* until the last instant an entry can expire at.
InitClock == InitWith({TwoNamespaces})

NextClock ==
    \/ Step({"t1"}, {"h2"}, {PlainOf(<<Colon>>)}, Values, Ttls)
    \/ Tick(MaxTimestamp)

SpecClock == InitClock /\ [][NextClock]_vars /\ WF_vars(Tick(MaxTimestamp))

\* One caller on two handles of any two namespaces, equal or not, the plain
\* keys and a structured one, two values, live entries only; the clock
\* stands still.
InitKeys == InitWith([Handles -> Namespaces])

NextKeys ==
    Step({"t1"}, Handles, {PlainOf(s) : s \in KeyTexts} \cup {StructOf(<<Colon>>)},
         {PlainOf(<<>>), PlainOf(<<Quote>>)}, {1})

SpecKeys == InitKeys /\ [][NextKeys]_vars

\* One caller on one handle, all keys, plain and structured, two values,
\* entries live or expired; the clock stands still.
InitStructKeys == InitWith({TwoNamespaces})

NextStructKeys ==
    Step({"t1"}, {"h2"}, Keys, {PlainOf(<<>>), PlainOf(<<Quote>>)}, {0, 1})

SpecStructKeys == InitStructKeys /\ [][NextStructKeys]_vars

\* Two handles of one namespace.
OneNamespace == [h \in Handles |-> <<Colon>>]

\* Two threads that call at the same time, on two handles of one namespace
\* or of two, one key, a plain and a structured value, lifetimes that are
\* over at once, one second and too long.
InitThreads == InitWith({OneNamespace, TwoNamespaces})

NextThreads ==
    \/ Step(Threads, Handles, {PlainOf(<<Colon>>)}, {PlainOf(<<>>), StructOf(<<>>)},
            {0, 1, HugeTtl})
    \/ Tick(MaxClock)

SpecThreads == InitThreads /\ [][NextThreads]_vars

\* The step that thread t takes inside the lock in SpecFair: the body of
\* its get or of its insert.
BodyFair(t) ==
    /\ \/ \E type \in Types : Get(t, "h1", PlainOf(<<Colon>>), type)
       \/ \E value \in {PlainOf(<<>>), StructOf(<<>>)}, ttl \in {1, HugeTtl} :
             Insert(t, "h1", PlainOf(<<Colon>>), value, ttl)
    /\ UNCHANGED todo

\* The steps of thread t in SpecFair at CACHE.lock() and at the drop of the
\* guard.
LockFair(t) == Lock(t) /\ UNCHANGED todo

UnlockFair(t) == Unlock(t) /\ UNCHANGED todo

\* Two threads on one handle and one key, a plain and a structured value,
\* a lifetime of one second and one too long; the clock stands still.  A
\* thread that can run does run in the end, and a thread that can take the
\* lock again and again does take it in the end.
InitFair == InitWith({OneNamespace})

NextFair ==
    Step(Threads, {"h1"}, {PlainOf(<<Colon>>)}, {PlainOf(<<>>), StructOf(<<>>)},
         {1, HugeTtl})

SpecFair ==
    /\ InitFair
    /\ [][NextFair]_vars
    /\ \A t \in Threads :
          SF_vars(LockFair(t)) /\ WF_vars(BodyFair(t)) /\ WF_vars(UnlockFair(t))

\* Two threads on two handles of one namespace, a key and a value that
\* serialize and ones that do not, a lifetime of one second and one too
\* long; the clock stands still.
InitFailures == InitWith({OneNamespace})

NextFailures ==
    Step(Threads, Handles, {PlainOf(<<Colon>>), Unserializable},
         {PlainOf(<<>>), Unserializable}, {1, HugeTtl})

SpecFailures == InitFailures /\ [][NextFailures]_vars

\* One caller on two handles of two namespaces, two keys, two values, a
\* lifetime of two seconds and a running clock: four encoded keys, two in
\* each namespace, with expiries that depend on when they were written.
InitEntries == InitWith({TwoNamespaces})

NextEntries ==
    \/ Step({"t1"}, Handles, {PlainOf(<<>>), PlainOf(<<Colon>>)},
            {PlainOf(<<>>), PlainOf(<<Quote>>)}, {2})
    \/ Tick(MaxClock)

SpecEntries == InitEntries /\ [][NextEntries]_vars

----------------------------------------------------------------------------
(* The tests of mod test_cache, each one a thread of the test harness.     *)

Tests == {"ok", "expiring", "payload", "key"}

PREFIX == <<"p", "r", "e", "f", "i", "x">>

KEY == <<"k", "e", "y">>

VALUE == <<"v", "a", "l", "u", "e">>

\* The lifetime 10 of the tests: longer than the tests run.
TestTtl == MaxClock + 1

\* The arguments of the insert and of the get of each test.
TestArgs ==
    [ok       |-> [key |-> PlainOf(KEY), value |-> PlainOf(VALUE), ttl |-> TestTtl,
                   type |-> "String"],
     expiring |-> [key |-> PlainOf(KEY), value |-> PlainOf(VALUE), ttl |-> -1,
                   type |-> "String"],
     payload  |-> [key |-> PlainOf(KEY), value |-> StructOf(VALUE), ttl |-> TestTtl,
                   type |-> "Struct"],
     key      |-> [key |-> StructOf(KEY), value |-> PlainOf(VALUE), ttl |-> TestTtl,
                   type |-> "String"]]

\* What the assertion of each test wants the get to return.
TestExpects ==
    [ok       |-> [kind |-> "Some", v |-> PlainOf(VALUE)],
     expiring |-> [kind |-> "None"],
     payload  |-> [kind |-> "Some", v |-> StructOf(VALUE)],
     key      |-> [kind |-> "Some", v |-> PlainOf(VALUE)]]

\* The harness starts every test on a thread of its own; each test makes
\* its handle with Cache::new(PREFIX) and has an insert and a get to make.
InitTests ==
    /\ prefix = [t \in Tests |-> PREFIX]
    /\ store = <<>>
    /\ poisoned = FALSE
    /\ holder = {}
    /\ now = 0
    /\ pc = [t \in Tests |-> "idle"]
    /\ op = [t \in Tests |-> "none"]
    /\ call = [t \in Tests |-> NoCall]
    /\ snap = [t \in Tests |-> <<>>]
    /\ written = <<>>
    /\ hist = [cut |-> <<>>, seen |-> [t \in Tests |-> <<>>], lastAcq |-> "none"]
    /\ todo = [t \in Tests |-> <<"insert", "get">>]

\* The test makes its next call.
TestCall(t) ==
    /\ todo[t] # <<>>
    /\ Call(t, Head(todo[t]))
    /\ todo' = [todo EXCEPT ![t] = Tail(todo[t])]

\* The body of the call of the test, with the arguments of the test.
TestBody(t) ==
    /\ \/ Insert(t, t, TestArgs[t].key, TestArgs[t].value, TestArgs[t].ttl)
       \/ Get(t, t, TestArgs[t].key, TestArgs[t].type)
    /\ UNCHANGED todo

\* The guard of the call of the test is dropped; a panic ends the test.
TestUnlock(t) ==
    /\ Unlock(t)
    /\ todo' = IF pc[t] = "panic" THEN [todo EXCEPT ![t] = <<>>] ELSE todo

NextTests ==
    \/ \E t \in Tests : TestCall(t)
    \/ \E t \in Tests : Lock(t) /\ UNCHANGED todo
    \/ \E t \in Tests : TestBody(t)
    \/ \E t \in Tests : TestUnlock(t)
    \/ Tick(MaxClock)

SpecTests == InitTests /\ [][NextTests]_vars

----------------------------------------------------------------------------
(* Properties.                                                             *)

\* Thread t is past the body of a get: the lock was not poisoned, the
\* lookup ran, and call[t] holds its arguments, clock reading and outcome.
GetRan(t) ==
    /\ pc[t] \in {"ret", "panic"}
    /\ call[t].op = "get"
    /\ call[t].result.kind \notin {"poison", "encode"}

\* The get of thread t looked up a key whose latest insert is w.
GetAfterInsert(t) == GetRan(t) /\ call[t].ck \in DOMAIN written

SomeOf(v) == [kind |-> "Some", v |-> v]

\* C1: a get that follows an insert with ttl > 0 on the same handle and key,
\* with no later insert to that encoded key and fewer than ttl seconds on the
\* clock, and that asks for the type of the inserted value, returns
\* Some(value), the value that was inserted, plain or structured.
RoundTrip ==
    \A t \in Threads :
        GetAfterInsert(t) =>
            LET w == written[call[t].ck]
            IN  (/\ w.h = call[t].h
                 /\ w.ttl > 0
                 /\ call[t].at < w.at + w.ttl
                 /\ call[t].type = w.value.type)
                => call[t].result = SomeOf(w.value)

\* A get returned a structured value that holds a character JSON escapes.
RoundTripWitness ==
    \E t \in Threads :
        /\ GetAfterInsert(t)
        /\ written[call[t].ck].ttl > 0
        /\ written[call[t].ck].h = call[t].h
        /\ call[t].result = SomeOf(StructOf(<<Quote>>))

\* C2: after an insert with ttl <= 0 every get of that encoded key returns
\* None, at the clock reading of the insert and at every later one, whatever
\* type it asks for, until another insert writes that key.
ImmediateExpiry ==
    \A t \in Threads :
        GetAfterInsert(t) =>
            (written[call[t].ck].ttl <= 0 => call[t].result.kind = "None")

\* A get at the very clock reading of an insert with ttl = 0 returned None.
ImmediateExpiryWitness ==
    \E t \in Threads :
        /\ GetAfterInsert(t)
        /\ written[call[t].ck].ttl = 0
        /\ written[call[t].ck].at = call[t].at
        /\ call[t].result.kind = "None"

\* The window of an entry: a get at clock reading t' of an entry inserted at
\* t with lifetime ttl and not inserted again finds the entry alive exactly
\* when t' < t + ttl, and returns None from t' = t + ttl on.
TtlWindow ==
    \A t \in Threads :
        GetAfterInsert(t) =>
            LET w == written[call[t].ck]
            IN  /\ call[t].at < w.at + w.ttl =>
                      /\ call[t].result.kind # "None"
                      /\ call[t].type = w.value.type => call[t].result = SomeOf(w.value)
                /\ call[t].at >= w.at + w.ttl => call[t].result.kind = "None"

\* The encoded keys of SpecClock.
ClockKeys == {get_key(TwoNamespaces["h2"], PlainOf(<<Colon>>))}

\* The entry at ck was written at clock reading t with lifetime ttl.
WrittenAt(ck, t, ttl) ==
    ck \in DOMAIN written /\ written[ck].at = t /\ written[ck].ttl = ttl

\* While the clock keeps advancing, every entry is stale in the end, unless
\* an insert writes its key again.
EventuallyStale ==
    \A ck \in ClockKeys, t \in 0..MaxTimestamp, ttl \in Ttls :
        WrittenAt(ck, t, ttl) ~>
            (~WrittenAt(ck, t, ttl) \/ (now >= t + ttl /\ store[ck].expiring <= now))

\* C3: an entry inserted at clock reading t with lifetime ttl and not inserted
\* again is returned by get at exactly the clock readings t' < t + ttl and is
\* absent from t' = t + ttl on; as the clock keeps advancing, every entry is
\* stale in the end.
TtlWindowAndStaleness == []TtlWindow /\ EventuallyStale

\* A get found an entry with ttl > 0 stale at exactly t' = t + ttl.
TtlWindowWitness ==
    \E t \in Threads :
        /\ GetAfterInsert(t)
        /\ written[call[t].ck].ttl > 0
        /\ call[t].at = written[call[t].ck].at + written[call[t].ck].ttl
        /\ call[t].result.kind = "None"

\* Thread t takes the step of the body of an insert.
InsertStep(t) == pc[t] = "body" /\ op[t] = "insert" /\ pc'[t] \in {"ret", "panic"}

\* Two handles of different namespaces never encode two keys alike.
EncodedKeysDiffer ==
    \A a, b \in Handles :
        prefix[a] # prefix[b] =>
            \A k1, k2 \in Keys : get_key(prefix[a], k1) # get_key(prefix[b], k2)

\* A get never returns a value that was inserted through a handle of another
\* namespace.
NeverObservesOther ==
    \A t \in Threads :
        (GetRan(t) /\ call[t].result.kind # "None") =>
            /\ call[t].ck \in DOMAIN written
            /\ prefix[written[call[t].ck].h] = prefix[call[t].h]

\* An insert through handle a leaves the result of every get through a
\* handle of another namespace as it was.
InsertKeepsOtherNamespace ==
    \A t \in Threads :
        InsertStep(t) =>
            \A b \in Handles :
                prefix[b] # prefix[call'[t].h] =>
                    \A k \in Keys, type \in Types :
                        Lookup(store', get_key(prefix[b], k), now, type)
                            = Lookup(store, get_key(prefix[b], k), now, type)

\* C4: two handles of different namespaces encode every logical key
\* differently, an insert through one never changes what a get through the
\* other returns, and no get returns a value inserted through the other.
NamespaceIsolation ==
    /\ [](EncodedKeysDiffer /\ NeverObservesOther)
    /\ [][InsertKeepsOtherNamespace]_vars

\* Both namespaces hold a live entry under the same logical key, with
\* different values, and a get through one handle returned its own.
NamespaceIsolationWitness ==
    \E t \in Threads, b \in Handles :
        /\ GetRan(t)
        /\ prefix[b] # prefix[call[t].h]
        /\ get_key(prefix[b], call[t].key) \in DOMAIN written
        /\ written[get_key(prefix[b], call[t].key)].h = b
        /\ call[t].result.kind = "Some"
        /\ call[t].result.v # written[get_key(prefix[b], call[t].key)].value

\* C8: under one namespace a get with a structured key returns the live
\* entry that was inserted under a key with equal field values, and only
\* that one: it returns None when nothing was inserted under a key with its
\* field values, whatever was inserted under keys with other field values.
StructuredKeys ==
    \A t \in Threads :
        (GetRan(t) /\ call[t].key.type = "Struct") =>
            LET inserted == {ck \in DOMAIN written :
                                /\ prefix[written[ck].h] = prefix[call[t].h]
                                /\ written[ck].key = call[t].key}
            IN  /\ inserted = {} => call[t].result.kind = "None"
                /\ \A ck \in inserted :
                      /\ ck = call[t].ck
                      /\ (written[ck].ttl > 0 /\ call[t].type = written[ck].value.type)
                            => call[t].result = SomeOf(written[ck].value)

\* A get with a structured key returned the value inserted under the key
\* with equal field values while a key with other field values holds a
\* live entry with another value.
StructuredKeysWitness ==
    \E t \in Threads, ck \in DOMAIN written :
        /\ GetRan(t)
        /\ call[t].key.type = "Struct"
        /\ call[t].result.kind = "Some"
        /\ written[ck].key.type = "Struct"
        /\ written[ck].key # call[t].key
        /\ written[ck].ttl > 0
        /\ written[ck].value # call[t].result.v

\* A get with a structured key returned None although a key with other
\* field values holds a live entry.
StructuredKeysMiss ==
    \E t \in Threads, ck \in DOMAIN written :
        /\ GetRan(t)
        /\ call[t].key.type = "Struct"
        /\ call[t].ck \notin DOMAIN written
        /\ call[t].result.kind = "None"
        /\ written[ck].key.type = "Struct"
        /\ written[ck].ttl > 0

\* Thread t is past the body of an insert that wrote its entry.
InsertRan(t) == pc[t] = "ret" /\ call[t].op = "insert"

\* C5: an insert under a namespace and key that already hold an entry leaves
\* the value and the expiry now + ttl of the later insert only, whatever the
\* earlier entry was, and a get that follows answers from the later insert
\* alone: None when its lifetime is over, its value otherwise.
Overwrite ==
    \A t \in Threads :
        /\ (InsertRan(t) /\ call[t].ck \in DOMAIN snap[t]) =>
              LET w == written[call[t].ck]
              IN  /\ w.t = t
                  /\ store[call[t].ck] =
                        [value |-> to_string(w.value), expiring |-> w.at + w.ttl]
        /\ GetAfterInsert(t) =>
              LET w == written[call[t].ck]
              IN  call[t].result =
                     IF call[t].at >= w.at + w.ttl THEN [kind |-> "None"]
                     ELSE IF call[t].type = w.value.type THEN SomeOf(w.value)
                     ELSE [kind |-> "panic"]

\* A get returned None at the clock reading at which an insert with
\* ttl <= 0 replaced an entry that would still be alive.
OverwriteWitness ==
    \E t \in Threads :
        /\ GetAfterInsert(t)
        /\ call[t].ck = hist.cut
        /\ call[t].at = written[call[t].ck].at
        /\ written[call[t].ck].ttl <= 0
        /\ call[t].result.kind = "None"

\* An insert replaced a live entry by another value with a shorter life.
OverwriteShortens ==
    \E t \in Threads :
        /\ InsertRan(t)
        /\ call[t].ck \in DOMAIN snap[t]
        /\ snap[t][call[t].ck].expiring > store[call[t].ck].expiring
        /\ snap[t][call[t].ck].value # store[call[t].ck].value

\* C6: a get returns None when its encoded key is not in the map, as for a
\* key that was never inserted; None when the entry is there with
\* expiring <= now, the boundary included and whatever type is asked for;
\* and Some of the stored value when the entry is there with expiring > now.
ResultOfGet ==
    \A t \in Threads :
        GetRan(t) =>
            LET ck == call[t].ck
            IN  /\ DOMAIN store = DOMAIN written
                /\ ck \notin DOMAIN store => call[t].result = [kind |-> "None"]
                /\ (ck \in DOMAIN store /\ store[ck].expiring <= call[t].at)
                      => call[t].result = [kind |-> "None"]
                /\ (ck \in DOMAIN store /\ store[ck].expiring > call[t].at)
                      => /\ store[ck].value = to_string(written[ck].value)
                         /\ call[t].type = written[ck].value.type
                               => call[t].result = SomeOf(written[ck].value)
                         /\ call[t].result.kind = "Some"
                               => call[t].result.v = written[ck].value

\* A get that asked for another type than the stored one returned None for
\* an entry at the boundary expiring = now.
ResultOfGetWitness ==
    \E t \in Threads :
        /\ GetRan(t)
        /\ call[t].ck \in DOMAIN store
        /\ store[call[t].ck].expiring = call[t].at
        /\ written[call[t].ck].ttl > 0
        /\ call[t].type # written[call[t].ck].value.type
        /\ call[t].result = [kind |-> "None"]

\* Thread t takes a step of a call of get: entering it, taking the lock, the
\* lookup, or dropping the guard.
GetCallStep(t) == (op[t] = "get" \/ op'[t] = "get") /\ pc'[t] # pc[t]

\* C7: no step of a get, hit or miss, changes the map: every entry, a stale
\* one that the get found included, is there afterwards with the same value
\* and expiring.
GetNeverMutates == [][\A t \in Threads : GetCallStep(t) => store' = store]_vars

\* A get found a stale entry and returned None; the entry is still there.
GetNeverMutatesWitness ==
    \E t \in Threads :
        /\ GetRan(t)
        /\ call[t].result.kind = "None"
        /\ call[t].ck \in DOMAIN store
        /\ store[call[t].ck].expiring < call[t].at
        /\ store = snap[t]

\* The threads that are between taking the lock and dropping the guard.
Inside == {t \in Threads : pc[t] \in {"body", "ret", "panic"}}

\* C9: at most one operation is inside the store at a time, and every
\* operation acts on the map as it was when it took the lock: a get returns
\* what the lookup finds in that map, an insert adds its entry to that map,
\* so that the results are those of running the operations one after the
\* other in the order in which they took the lock; a get returns the value
\* of the latest insert to its encoded key if that is unexpired.
Serialized ==
    /\ Cardinality(Inside) <= 1
    /\ Inside = holder
    /\ \A t \in Threads :
          /\ pc[t] = "body" => store = snap[t]
          /\ GetRan(t) =>
                /\ store = snap[t]
                /\ call[t].result = Lookup(snap[t], call[t].ck, call[t].at, call[t].type)
                /\ (call[t].result.kind = "Some") =>
                      /\ call[t].result.v = written[call[t].ck].value
                      /\ call[t].at < written[call[t].ck].at + written[call[t].ck].ttl
          /\ InsertRan(t) =>
                /\ hist.lastAcq = t
                /\ store = MapInsert(snap[t], call[t].ck, store[call[t].ck])

\* A thread is inside the store, past a get that returned the value another
\* thread inserted, while the other thread waits for the lock.
SerializedWitness ==
    \E t, u \in Threads :
        /\ GetRan(t)
        /\ call[t].result.kind = "Some"
        /\ written[call[t].ck].t = u
        /\ u # t
        /\ pc[u] = "lock"

\* Every entry is the effect of one insert: its value and its expiry.
EntryOfOneInsert ==
    \A ck \in DOMAIN store :
        /\ ck \in DOMAIN written
        /\ store[ck] = [value |-> to_string(written[ck].value),
                        expiring |-> written[ck].at + written[ck].ttl]

\* Thread t wrote a key that another thread wrote while t was inside its
\* call of insert: the two inserts raced, and t took the lock last.
RaceWonBy(t) == InsertRan(t) /\ hist.seen[t] = call[t].ck

\* C10: of two inserts to one encoded key that run at the same time, the
\* entry that stays is the effect of the one that took the lock last, its
\* value together with its expiry, never the value of one with the expiry
\* of the other and never neither.
RacingInserts ==
    /\ EntryOfOneInsert
    /\ \A t \in Threads :
          RaceWonBy(t) => (hist.lastAcq = t /\ written[call[t].ck].t = t)

\* Two inserts of different values and expiries raced for one key.
RacingInsertsWitness ==
    \E t \in Threads :
        /\ RaceWonBy(t)
        /\ call[t].ck \in DOMAIN snap[t]
        /\ snap[t][call[t].ck].value # store[call[t].ck].value
        /\ snap[t][call[t].ck].expiring # store[call[t].ck].expiring

\* Some thread that is inside a call can take its next step: take the
\* lock, run the body, or drop the guard.
CanProceed ==
    ENABLED (\E t \in Threads : LockFair(t) \/ BodyFair(t) \/ UnlockFair(t))

\* No state with a started call is a deadlock.
NoDeadlock == (\E t \in Threads : pc[t] # "idle") => CanProceed

\* There is one lock, a thread asks for it only while it holds no guard,
\* and at most one guard exists.
NoReentry ==
    /\ Cardinality(holder) <= 1
    /\ \A t \in Threads : (t \in holder) <=> (pc[t] \in {"body", "ret", "panic"})
    /\ \A t \in Threads : pc[t] = "lock" => t \notin holder

\* Every started call ends: it returns or it panics, and its guard is gone.
CallsEnd == \A t \in Threads : (pc[t] # "idle") ~> (pc[t] = "idle")

\* C11: no reachable state is a deadlock; no operation asks for the lock
\* while it holds it, and there is one lock only; when every thread that can
\* run does run and a thread that can take the lock again and again does
\* take it, every started call ends, by returning or by panicking.
NoDeadlockAndProgress == [](NoDeadlock /\ NoReentry) /\ CallsEnd

\* A thread waits for the lock while the other one, panicking inside its
\* call, still holds the guard.
NoDeadlockWitness ==
    \E t, u \in Threads :
        /\ pc[t] = "lock"
        /\ pc[u] = "panic"
        /\ u \in holder
        /\ call[u].result.kind = "panic"

\* C12: no step, of a get, of an insert, of the clock or of a panicking
\* call, takes an encoded key out of the map; the map gains a key only by
\* the body of an insert that succeeds, and then the one key it writes.
KeysNeverShrink ==
    [][/\ DOMAIN store \subseteq DOMAIN store'
       /\ Cardinality(DOMAIN store' \ DOMAIN store) <= 1
       /\ \A ck \in DOMAIN store' \ DOMAIN store :
             \E t \in Threads :
                 InsertStep(t) /\ call'[t].ck = ck /\ call'[t].result.kind = "unit"]_vars

\* Four keys are in the map, all of them stale, after gets, steps of the
\* clock and a call that panicked.
KeysNeverShrinkWitness ==
    /\ Cardinality(DOMAIN store) = 4
    /\ \A ck \in DOMAIN store : store[ck].expiring <= now
    /\ poisoned

\* The get of thread t found a live entry that does not deserialize into
\* the type it asked for: the text is no text of that type, or the value
\* that was inserted is of another type.
GetUndecodable(t) ==
    /\ GetRan(t)
    /\ call[t].ck \in DOMAIN snap[t]
    /\ snap[t][call[t].ck].expiring > call[t].at
    /\ \/ ~from_str(call[t].type, snap[t][call[t].ck].value).ok
       \/ written[call[t].ck].value.type # call[t].type

\* C13: a get of an entry that is there and unexpired and whose stored text
\* does not deserialize into the type asked for panics, it returns neither
\* None nor Some, and the map is as it was when the get took the lock.
DecodingFailure ==
    \A t \in Threads :
        GetUndecodable(t) =>
            /\ pc[t] = "panic"
            /\ call[t].result = [kind |-> "panic"]
            /\ store = snap[t]

\* A get that asked for a struct panicked on a live entry that holds a
\* plain string, and the entry is still there.
DecodingFailureWitness ==
    \E t \in Threads :
        /\ GetUndecodable(t)
        /\ call[t].type = "Struct"
        /\ written[call[t].ck].value = PlainOf(<<Quote>>)
        /\ store[call[t].ck].expiring > now
        /\ pc[t] = "panic"

\* Thread t is past the body of an insert, which wrote or panicked.
InsertOver(t) ==
    /\ pc[t] \in {"ret", "panic"}
    /\ call[t].op = "insert"
    /\ call[t].result.kind # "poison"

\* The arguments of the insert c cannot be stored: the key or the value
\* does not serialize, or the clock reading plus the lifetime is out of the
\* range of timestamps.
InsertFails(c) ==
    \/ ~Serializes(c.key)
    \/ ~Serializes(c.value)
    \/ c.at + c.ttl > MaxTimestamp

\* C14: an insert whose key or value does not serialize, or whose
\* now + ttl is out of the range of timestamps, panics and leaves the map,
\* the earlier entry of its key included, as it was when the insert took the
\* lock; every other insert returns.
FailingInsert ==
    \A t \in Threads :
        InsertOver(t) =>
            IF InsertFails(call[t])
            THEN pc[t] = "panic" /\ store = snap[t]
            ELSE pc[t] = "ret"

\* An insert of a value that does not serialize panicked and the entry that
\* an earlier insert wrote under its key is still there.
FailingInsertWitness ==
    \E t \in Threads :
        /\ InsertOver(t)
        /\ ~Serializes(call[t].value)
        /\ call[t].ttl = 1
        /\ call[t].ck \in DOMAIN store
        /\ store[call[t].ck].value = to_string(PlainOf(<<>>))
        /\ pc[t] = "panic"

\* An insert with a lifetime that is too long panicked and the entry that
\* an earlier insert wrote under its key is still there.
FailingInsertOverflow ==
    \E t \in Threads :
        /\ InsertOver(t)
        /\ Serializes(call[t].value)
        /\ call[t].ttl = HugeTtl
        /\ call[t].ck \in DOMAIN store
        /\ pc[t] = "panic"

\* The inserts that are the latest to their encoded key and were made with
\* the logical key of the get of thread t through a handle of the namespace
\* of that get, the same handle or another.
InsertsFor(t) ==
    {ck \in DOMAIN written :
        /\ written[ck].key = call[t].key
        /\ prefix[written[ck].h] = prefix[call[t].h]}

\* C15: a get through a handle returns the value that the latest insert with
\* its logical key wrote through any handle of an equal namespace, from the
\* same thread or another, as long as that entry has not expired; the
\* answer depends on the namespace of the handle only, not on the handle.
SharedVisibility ==
    \A t \in Threads :
        GetRan(t) =>
            /\ \A ck \in InsertsFor(t) :
                  /\ ck = call[t].ck
                  /\ (/\ written[ck].ttl > 0
                      /\ call[t].at < written[ck].at + written[ck].ttl
                      /\ call[t].type = written[ck].value.type)
                        => call[t].result = SomeOf(written[ck].value)
            /\ \A h \in Handles :
                  prefix[h] = prefix[call[t].h] =>
                      call[t].result =
                          Lookup(store, get_key(prefix[h], call[t].key),
                                 call[t].at, call[t].type)

\* A get through one handle returned the value that another thread
\* inserted through another handle of the same namespace.
SharedVisibilityWitness ==
    \E t \in Threads :
        /\ GetAfterInsert(t)
        /\ written[call[t].ck].h # call[t].h
        /\ written[call[t].ck].t # t
        /\ call[t].result = SomeOf(written[call[t].ck].value)

\* A get returned the value that the same thread inserted through another
\* handle of the same namespace.
SharedVisibilitySameThread ==
    \E t \in Threads :
        /\ GetAfterInsert(t)
        /\ written[call[t].ck].h # call[t].h
        /\ written[call[t].ck].t = t
        /\ call[t].result.kind = "Some"

\* Every entry expires at the clock reading of the insert that wrote it plus
\* the lifetime given to that insert.
ExpiryFixedAtInsert ==
    \A ck \in DOMAIN store :
        store[ck].expiring = written[ck].at + written[ck].ttl

\* An entry that a step changes is the entry of the encoded key of an insert
\* whose body that step is; it then is the entry of that insert.
OnlyInsertChanges ==
    \A ck \in DOMAIN store :
        store'[ck] # store[ck] =>
            \E t \in Threads :
                /\ InsertStep(t)
                /\ call'[t].ck = ck
                /\ store'[ck] = [value |-> to_string(call'[t].value),
                                 expiring |-> now + call'[t].ttl]

\* C16: the expiring of every entry is the clock reading of the insert that
\* wrote it plus the ttl of that insert, and value and expiring of an entry
\* change only by an insert to the same encoded key: every get, every insert
\* to another encoded key of the same or another namespace, and every step
\* of the clock leaves the entry as it is.
EntryInvariant == []ExpiryFixedAtInsert /\ [][OnlyInsertChanges]_vars

\* Four entries, two in each namespace, written at all the readings of
\* the clock, with both values: each one kept its value and expiry through
\* the inserts to the other keys, the gets and the steps of the clock.
EntryInvariantWitness ==
    /\ Cardinality(DOMAIN store) = 4
    /\ {written[ck].at : ck \in DOMAIN store} = 0..MaxClock
    /\ Cardinality({store[ck].value : ck \in DOMAIN store}) = 2
    /\ now = MaxClock
    /\ \E t \in Threads : GetRan(t)

\* The entry of ck is in the map and its lifetime is over.
Expired(ck) == ck \in DOMAIN store /\ store[ck].expiring <= now

\* A get that finds the entry of its key expired returns None.
ExpiredIsAbsent ==
    \A t \in Threads :
        (/\ GetRan(t)
         /\ call[t].ck \in DOMAIN store
         /\ store[call[t].ck].expiring <= call[t].at) => call[t].result = [kind |-> "None"]

\* An entry that is expired stays expired, whatever gets, inserts to other
\* keys and steps of the clock there are, until the body of an insert to its
\* encoded key; an insert with ttl > 0 leaves its own value and expiry, and
\* only that makes the entry alive again.
ExpiredUntilInsert ==
    \A ck \in DOMAIN store :
        Expired(ck) =>
            \/ Expired(ck)' /\ store'[ck] = store[ck]
            \/ \E t \in Threads :
                  /\ InsertStep(t)
                  /\ call'[t].ck = ck
                  /\ store'[ck] = [value |-> to_string(call'[t].value),
                                   expiring |-> now + call'[t].ttl]
                  /\ Expired(ck)' <=> call'[t].ttl <= 0

\* C17: once the entry of a key is expired, every get of the key returns
\* None until an insert to the same encoded key; only such an insert makes
\* the entry alive again, and then with its own value and expiry.
Lifecycle == []ExpiredIsAbsent /\ [][ExpiredUntilInsert]_vars

\* An insert wrote a live entry with another value over an entry that had
\* expired a second or more before.
LifecycleWitness ==
    \E t \in Threads :
        /\ InsertRan(t)
        /\ call[t].ck \in DOMAIN snap[t]
        /\ snap[t][call[t].ck].expiring < call[t].at
        /\ snap[t][call[t].ck].expiring > 0
        /\ store[call[t].ck].expiring > now
        /\ store[call[t].ck].value # snap[t][call[t].ck].value

\* A get returned None for an entry that expired a second or more before
\* and that had been alive.
LifecycleStale ==
    \E t \in Threads :
        /\ GetAfterInsert(t)
        /\ written[call[t].ck].ttl > 0
        /\ written[call[t].ck].at + written[call[t].ck].ttl < call[t].at
        /\ call[t].result = [kind |-> "None"]

\* The call of thread t panicked on its own arguments: a key or value that
\* does not serialize, a lifetime that is too long, or a type that the
\* stored text is not of.
OwnFault(t) == call[t].result.kind \in {"panic", "encode"}

\* C18: a panic of a get or an insert stays with that call: the lock can be
\* taken again afterwards, and a later call, on any handle and from any
\* thread, panics only on arguments of its own, so that a call with valid
\* arguments returns.
FailureConfined ==
    \A t \in Threads : pc[t] = "panic" => OwnFault(t)

\* C19: with the four tests running at the same time on the one CACHE, no
\* call of a test panics and the get of every test returns what the
\* assertion of the test wants: the effect of the insert of that test.
TestsPass ==
    \A t \in Tests :
        /\ pc[t] # "panic"
        /\ (pc[t] = "ret" /\ call[t].op = "get") => call[t].result = TestExpects[t]

====
